---------------------------- MODULE Spec2Model ----------------------------
(***************************************************************************)
(* The simulation-control kernel of flow: the Kernel facade                *)
(* (flow/core/kernel/kernel.py) and the TraCI simulation control           *)
(* (flow/core/kernel/sim_control/traci.py, base.py).                       *)
(*                                                                         *)
(* The program is single-threaded: a call of start_simulation runs to its  *)
(* end before any other method is called.  The engine processes it spawns  *)
(* run on their own, so the retry loop is modelled with its position (pc): *)
(* one step up to Popen, one for each exchange with the engine the try     *)
(* block waits for, one for the return of the connection, one for the      *)
(* except handler; a process may exit between any two of them.             *)
(*                                                                         *)
(* An attempt ends in one of three ways: it returns the connection, it     *)
(* raises an Exception (the handler and the next attempt follow), or a     *)
(* KeyboardInterrupt arrives, which no handler of these files catches and  *)
(* which ends the call where it stands.  The third is recorded apart from  *)
(* the other two (startResult.kind = "interrupted"): an interrupted        *)
(* attempt is not a failed attempt, and nFail does not count it.  A        *)
(* KeyboardInterrupt is modelled in start_simulation and teardown_sumo,    *)
(* the methods that run while an engine process is being spawned or        *)
(* signalled, where a call cut short leaves a process or a connection      *)
(* behind; the other methods are modelled as running to their end.         *)
(*                                                                         *)
(* The collaborators that are not part of these files (the traci library,  *)
(* the operating system, the vehicle / traffic_light / simulation          *)
(* subsystems) are the environment: an engine process, a connection, and   *)
(* a record of the calls each subsystem received (trace).                  *)
(*                                                                         *)
(* Spec is the kernel under one launch configuration.  SpecLaunch is the   *)
(* construction of the engine command line alone, over every               *)
(* configuration of Params.                                                *)
(***************************************************************************)
EXTENDS Integers, Sequences, FiniteSets

\* ------------------------------------------------------------------ bounds
\* Processes the operating system will create before Popen starts to fail.
MaxProcs == 2
\* Connections traci.connect will open before it starts to fail.
MaxConns == 2
\* Calls of start_simulation in one behaviour.
MaxStarts == 2
\* Simulation steps one engine makes before the callers stop stepping it.
MaxSteps == 2

\* --------------------------------------------------------------- constants
\* traci.py:17
RETRIES_ON_ERROR == 10
\* Python's None, for a process handle or a connection handle.
None == 0

Pids == 1..MaxProcs
Cids == 1..MaxConns

\* The values of sim_interface the callers try; only "traci" is recognized.
Selectors == {"traci", "aimsun", "nonexistent"}

\* The places of the try block of start_simulation that can raise an
\* Exception: the construction of the command line (ensure_dir), Popen, and
\* the three exchanges with the engine.
Stages == {"build", "spawn", "connect", "setOrder", "simulationStep"}

\* The places where the try block waits for the engine: the settle delay and
\* traci.connect, setOrder, simulationStep.  pc names the statement it is at.
Waits == {"connect", "setOrder", "simulationStep"}

\* No exception: the value of `error' before the first failure, and of the
\* other exception slots when nothing was raised.
NoError == [attempt |-> 0, stage |-> "none"]

VARIABLES
    \* --- Kernel (kernel.py)
    kstate,        \* "new": not constructed, "ok": __init__ returned, "raised"
    kerr,          \* what Kernel.__init__ raised ("none" when it did not)
    sim_interface, \* the selector Kernel.__init__ was given ("" before the call)
    subsystems,    \* the sub-kernel attributes bound on the kernel
    k_api,         \* Kernel.kernel_api
    TraCINetworkBound, \* whether the name TraCINetwork (kernel.py:70)
                       \* resolves in the module's namespace
    \* --- TraCISimControl (traci.py, base.py)
    sc_api,        \* TraCISimControl.kernel_api
    sumo_proc,     \* TraCISimControl.sumo_proc: a pid or None
    \* --- start_simulation's frame
    pc,            \* "idle", "try" (at the top of a try block), a wait of
                   \* Waits (before that exchange returns), "return" (the
                   \* first step has returned, the return statement is
                   \* next), "except" (in the handler)
    iter,          \* the iteration of `for _ in range(RETRIES_ON_ERROR)', from 1
    error,         \* the local `error'
    exc,           \* the exception the handler has caught (`e')
    startResult,   \* how the last call ended: kind "none", "returned",
                   \* "raised" (an Exception: raise error, traci.py:162) or
                   \* "interrupted" (a KeyboardInterrupt)
    \* --- environment
    procs,         \* pid -> "none" | "alive" | "signalled" | "exited"
    conns,         \* cid -> [st: "none" | "open" | "closed", proc: pid]
    subs,          \* the open sessions holding the simulation subscription
    steps,         \* pid -> the simulation steps the running engine has made
    teleported,    \* pid -> the vehicles that began to teleport in the
                   \* engine's last step
    results,       \* cid -> the teleport-start id list the subscription of
                   \* that session last delivered
    \* --- the launch of the engine (traci.py:80-133)
    launch,        \* the parameters, and the command line built from them
    \* --- what a spy on the collaborators records
    nSpawn,        \* subprocess.Popen calls of the last start_simulation
    nKill,         \* teardown_sumo calls of the last start_simulation
    nFail,         \* attempts of the last start_simulation that raised an
                   \* Exception
    spawned,       \* the processes the last start_simulation spawned
    killed,        \* the processes whose group it called os.killpg on
    nStarts,       \* calls of start_simulation so far
    given,         \* the connections start_simulation has returned to the caller
    lastCall,      \* the last method called from outside, and how it ended
    trace,         \* the calls that method made on the sub-kernels, in order
    commands       \* what that method did on the operating system and on
                   \* the connection, in order

vars == <<kstate, kerr, sim_interface, subsystems, k_api, TraCINetworkBound, sc_api, sumo_proc,
          pc, iter, error, exc, startResult, procs, conns, subs, steps,
          teleported, results, launch,
          nSpawn, nKill, nFail, spawned, killed, nStarts, given, lastCall, trace,
          commands>>

kernelVars == <<kstate, kerr, sim_interface, subsystems, k_api, TraCINetworkBound>>
callerVars == <<nStarts, given>>
startVars == <<pc, iter, error, exc, startResult, nSpawn, nKill, nFail, spawned, killed>>
envVars == <<procs, conns, subs, steps, teleported, results>>

\* ----------------------------------------------------------------- helpers
NoCall == [op |-> "none", arg |-> None, reset |-> FALSE, outcome |-> "none",
           open |-> FALSE]

\* A process that has been spawned and has not exited.
LiveProc(p) == procs[p] \in {"alive", "signalled"}
LiveProcs == {p \in Pids : LiveProc(p)}

\* A connection object whose socket is open.
OpenConns == {c \in Cids : conns[c].st = "open"}

\* A connection on which a command can be exchanged: its socket is open and
\* the engine behind it still runs.
Usable(c) == c # None /\ conns[c].st = "open" /\ LiveProc(conns[c].proc)

\* Whether the connection sim_control holds has its socket open.
ScOpen == sc_api # None /\ conns[sc_api].st = "open"

\* The next unused pid / cid (MaxProcs + 1 when none is left).
NextPid == IF \E p \in Pids : procs[p] = "none"
           THEN CHOOSE p \in Pids : procs[p] = "none" /\ \A q \in Pids : q < p => procs[q] # "none"
           ELSE MaxProcs + 1
NextCid == IF \E c \in Cids : conns[c].st = "none"
           THEN CHOOSE c \in Cids : conns[c].st = "none" /\ \A d \in Cids : d < c => conns[d].st # "none"
           ELSE MaxConns + 1

\* One entry of trace: sub-kernel `obj' received `op' with a connection (arg)
\* or a reset flag; open: whether sim_control's connection was open then.
Call(obj, op, arg, reset, open) ==
    [obj |-> obj, op |-> op, arg |-> arg, reset |-> reset, open |-> open]

\* The vehicles of the network that can begin to teleport in a step.
Vehs == {"veh3"}

\* A subscription that leaves the teleports out.
SubscribedVarsNoTeleport ==
    {"VAR_DEPARTED_VEHICLES_IDS", "VAR_ARRIVED_VEHICLES_IDS",
     "VAR_TIME_STEP", "VAR_DELTA_T"}

\* traci.py:48-52: the simulation variables pass_api subscribes to.
SubscribedVars ==
    {"VAR_DEPARTED_VEHICLES_IDS", "VAR_ARRIVED_VEHICLES_IDS",
     "VAR_TELEPORT_STARTING_VEHICLES_IDS", "VAR_TIME_STEP", "VAR_DELTA_T"}

\* One entry of commands: a process spawn ("spawn") or a protocol command on
\* connection conn; order is the argument of setOrder (-1 otherwise), fields
\* the variables of a subscribe ({} otherwise).
Cmd(cmd, conn, order, fields) ==
    [cmd |-> cmd, conn |-> conn, order |-> order, fields |-> fields]

\* ------------------------------------------------- the engine command line
\* An optional parameter: absent (Python's None) or a value.
Absent == [some |-> FALSE, v |-> 0]
Some(v) == [some |-> TRUE, v |-> v]

\* The configurations of sim_addl_params.  sim_step and teleport_time are
\* floats, held in tenths; -10 is the -1 that switches teleporting off.
Params ==
    [render : BOOLEAN, port : {8873}, num_clients : {1, 2}, sim_step : {1},
     no_step_log : BOOLEAN, lateral_resolution : {Absent, Some(0)},
     emission_path : {Absent, Some(1)}, overtake_right : BOOLEAN,
     seed : {Absent, Some(0), Some(5)}, print_warnings : BOOLEAN,
     teleport_time : {-10, 1205}]

\* The configuration of Spec, where one configuration stands for all: the
\* command line is examined under SpecLaunch, over every element of Params.
DefaultParams ==
    [render |-> FALSE, port |-> 8873, num_clients |-> 1, sim_step |-> 1,
     no_step_log |-> TRUE, lateral_resolution |-> Absent,
     emission_path |-> Some(1), overtake_right |-> FALSE, seed |-> Absent,
     print_warnings |-> TRUE, teleport_time |-> -10]

\* One element of sumo_call: a literal string (s), str() of an integer (n),
\* str() of a float of n tenths, or the emission file under directory n.
Lit(s) == [kind |-> "lit", s |-> s, n |-> 0]
StrInt(n) == [kind |-> "int", s |-> "", n |-> n]
StrFloat(n) == [kind |-> "float", s |-> "", n |-> n]
EmissionFile(n) == [kind |-> "path", s |-> "-emission.xml", n |-> n]

\* traci.py:129: int() of a float of t tenths truncates toward zero.
IntOf(t) == IF t >= 0 THEN t \div 10 ELSE -((-t) \div 10)

\* A launch that silences the warnings when they are asked for.
NoWarningsInverted(p) == p.print_warnings

\* traci.py:123: the condition of --no-warnings.
NoWarnings(p) == ~p.print_warnings

\* traci.py:83-133: the command line of one attempt.
SumoCall(p) ==
    <<Lit(IF p.render = TRUE THEN "sumo-gui" ELSE "sumo"), Lit("-c"), Lit("simulation.cfg"),
      Lit("--remote-port"), StrInt(p.port),
      Lit("--num-clients"), StrInt(p.num_clients),
      Lit("--step-length"), StrFloat(p.sim_step)>>
    \o (IF p.no_step_log THEN <<Lit("--no-step-log")>> ELSE <<>>)
    \o (IF p.lateral_resolution # Absent
        THEN <<Lit("--lateral-resolution"), StrFloat(p.lateral_resolution.v)>>
        ELSE <<>>)
    \o (IF p.emission_path # Absent
        THEN <<Lit("--emission-output"), EmissionFile(p.emission_path.v)>>
        ELSE <<>>)
    \o (IF p.overtake_right
        THEN <<Lit("--lanechange.overtake-right"), Lit("true")>> ELSE <<>>)
    \o (IF p.seed # Absent THEN <<Lit("--seed"), StrInt(p.seed.v)>> ELSE <<>>)
    \o (IF NoWarnings(p) THEN <<Lit("--no-warnings"), Lit("true")>> ELSE <<>>)
    \o <<Lit("--time-to-teleport"), StrInt(IntOf(p.teleport_time))>>
    \o <<Lit("--collision.check-junctions"), Lit("true")>>

\* traci.py:104-105: the directories ensure_dir has made sure of.
EnsuredDirs(p) == IF p.emission_path # Absent THEN {p.emission_path.v} ELSE {}

\* traci.py:104-105: ensure_dir can raise only while it has a directory to
\* make: a configured emission path that is not there yet.
EnsureDirCanRaise == EnsuredDirs(launch.params) \ launch.dirs # {}

\* The launch state before the first attempt.
NewLaunch(p) == [params |-> p, sumo_call |-> <<>>, dirs |-> {}]

\* traci.py:80-133: an attempt builds sumo_call afresh from the parameters.
BuildSumoCall ==
    launch' = [launch EXCEPT !.sumo_call = SumoCall(launch.params),
                             !.dirs = @ \cup EnsuredDirs(launch.params)]

\* traci.py:104-105: ensure_dir has returned and the command line of this
\* attempt is not complete: the one of the attempt before, if any, is the
\* last that reached Popen.
EnsureDir ==
    launch' = [launch EXCEPT !.dirs = @ \cup EnsuredDirs(launch.params)]

\* The position of sub-kernel `obj' in the calling order `order'.
Pos(order, obj) == CHOOSE i \in 1..Len(order) : order[i] = obj

\* The state after the imports, before any object is constructed, but for
\* the launch parameters.
InitKernel ==
    /\ kstate = "new"
    /\ kerr = "none"
    /\ sim_interface = ""
    /\ subsystems = {}
    /\ k_api = None
    /\ TraCINetworkBound \in BOOLEAN
    /\ sc_api = None
    /\ sumo_proc = None
    /\ pc = "idle"
    /\ iter = 0
    /\ error = NoError
    /\ exc = NoError
    /\ startResult = [kind |-> "none", conn |-> None, err |-> NoError]
    /\ procs = [p \in Pids |-> "none"]
    /\ conns = [c \in Cids |-> [st |-> "none", proc |-> None]]
    /\ subs = {}
    /\ steps = [p \in Pids |-> 0]
    /\ teleported = [p \in Pids |-> {}]
    /\ results = [c \in Cids |-> {}]
    /\ nSpawn = 0
    /\ nKill = 0
    /\ nFail = 0
    /\ spawned = {}
    /\ killed = {}
    /\ nStarts = 0
    /\ given = {}
    /\ lastCall = NoCall
    /\ trace = <<>>
    /\ commands = <<>>

Init == InitKernel /\ launch = NewLaunch(DefaultParams)


\* ------------------------------------------------------- Kernel.__init__
AllSubsystems == {"sim_control", "simulation", "vehicle", "traffic_light"}

\* A constructor that creates the simulation control before it looks at the
\* selector.
InitSubsystemsEager(sel, bound) ==
    IF sel = "traci" /\ bound THEN AllSubsystems ELSE {"sim_control"}

\* kernel.py:68-75: the sub-kernels __init__ has instantiated when it ends.
\* Line 70 names TraCINetwork, which kernel.py never imports (it imports
\* TraCISimulation): unless the name is bound from outside, the lookup raises
\* after line 69 has run.
InitSubsystems(sel, bound) ==
    IF sel = "traci"
    THEN IF bound THEN AllSubsystems ELSE {"sim_control"}
    ELSE {}

\* kernel.py:68-75: what __init__ raises.
InitError(sel, bound) ==
    IF sel = "traci"
    THEN IF bound THEN "none" ELSE "NameError"
    ELSE "FatalFlowError"

\* Kernel.__init__(sim_interface, sim_addl_params)
Kernel__init__(sel) ==
    /\ kstate = "new"
    /\ sim_interface' = sel
    /\ k_api' = None
    /\ subsystems' = InitSubsystems(sel, TraCINetworkBound)
    /\ kerr' = InitError(sel, TraCINetworkBound)
    /\ kstate' = IF kerr' = "none" THEN "ok" ELSE "raised"
    \* TraCISimControl.__init__ (traci.py:35-37, base.py:27-28)
    /\ sc_api' = None
    /\ sumo_proc' = None
    /\ lastCall' = [op |-> "Kernel.__init__", arg |-> None, reset |-> FALSE,
                    outcome |-> kerr', open |-> FALSE]
    /\ trace' = <<>>
    /\ commands' = <<>>
    /\ UNCHANGED <<TraCINetworkBound, startVars, callerVars, envVars, launch>>

\* A caller holds a kernel, and nothing of it is running.
Ready == kstate = "ok" /\ pc = "idle"

NoResult == [kind |-> "none", conn |-> None, err |-> NoError]

\* The record of the last start_simulation is cleared when another method is
\* called: the spy records one call at a time.
ForgetStart ==
    /\ UNCHANGED <<pc, iter, error, exc>>
    /\ startResult' = NoResult
    /\ nSpawn' = 0
    /\ nKill' = 0
    /\ nFail' = 0
    /\ spawned' = {}
    /\ killed' = {}

\* ------------------------------------------------------- teardown_sumo
\* A teardown that signals nothing.
KillPgNoSignal(ps, p) == ps

\* traci.py:164-169: os.killpg(self.sumo_proc.pid, SIGTERM) inside
\* try/except Exception.  With no handle the attribute lookup raises, with an
\* exited process killpg may raise; both are swallowed and nothing changes.
KillPg(ps, p) ==
    IF p # None /\ ps[p] = "alive" THEN [ps EXCEPT ![p] = "signalled"] ELSE ps

\* traci.py:166: what the line os.killpg(self.sumo_proc.pid, SIGTERM) can end
\* with.  None has no attribute `pid'; the group of a running process takes
\* the signal; the group of an exited one takes it while the process is not
\* reaped, and is not found afterwards.
KillOutcomes(ps, p) ==
    IF p = None THEN {"AttributeError"}
    ELSE IF ps[p] \in {"alive", "signalled"} THEN {"ok"}
    ELSE {"ok", "ProcessLookupError"}

\* The processes os.killpg has been called on, after one more teardown_sumo.
KilledAfter(ks, p) == IF p = None THEN ks ELSE ks \cup {p}

\* A teardown without the try/except.
TeardownOutcomeUnguarded(o) == o

\* traci.py:165-169: what teardown_sumo ends with when killpg ended with o:
\* `except Exception' catches it and prints.
TeardownOutcome(o) == "ok"

\* What teardown_sumo can end with on handle p.
TeardownOutcomes(ps, p) == {TeardownOutcome(o) : o \in KillOutcomes(ps, p)}

\* ------------------------------------------------------ start_simulation
\* traci.py:78: whether the for loop has an iteration after iteration i.
LoopHasNextOffByOne(i) == i <= RETRIES_ON_ERROR

LoopHasNext(i) == i < RETRIES_ON_ERROR

\* A handler that keeps the first error it saw.
HandlerKeepsFirst(old, e) ==
    [error |-> IF old = NoError THEN e ELSE old, teardown |-> TRUE]

\* A handler that does not tear the attempt's process down.
HandlerNoTeardown(old, e) == [error |-> e, teardown |-> FALSE]

\* traci.py:158-161: the handler binds the caught exception to `error' and
\* calls teardown_sumo.
Handler(old, e) == [error |-> e, teardown |-> TRUE]

\* traci.py:77: a call of start_simulation begins.
start_simulation ==
    /\ Ready
    /\ nStarts < MaxStarts
    /\ nStarts' = nStarts + 1
    /\ pc' = "try"
    /\ iter' = 1
    /\ error' = NoError
    /\ exc' = NoError
    /\ startResult' = NoResult
    /\ nSpawn' = 0
    /\ nKill' = 0
    /\ nFail' = 0
    /\ spawned' = {}
    /\ killed' = {}
    /\ lastCall' = [op |-> "start_simulation", arg |-> None, reset |-> FALSE,
                    outcome |-> "running", open |-> ScOpen]
    /\ trace' = <<>>
    /\ commands' = <<>>
    /\ UNCHANGED <<kernelVars, sc_api, sumo_proc, given, envVars, launch>>

\* The connection of the running attempt, the local traci_connection
\* (traci.py:153): the last one traci.connect has made.
FrameConn == NextCid - 1

\* A handshake that asks for client order 1.
OrderCmdOne(c) == Cmd("setOrder", c, 1, {})

\* traci.py:154: traci_connection.setOrder(0).
OrderCmd(c) == Cmd("setOrder", c, 0, {})

\* The try block raises an Exception at `stage': the handler is next.
Raise(stage) ==
    /\ pc' = "except"
    /\ exc' = [attempt |-> iter, stage |-> stage]
    /\ nFail' = nFail + 1
    /\ UNCHANGED <<iter, error, startResult, lastCall, given>>

\* The try block goes on to its next wait.
GoOn(next) ==
    /\ pc' = next
    /\ UNCHANGED <<iter, error, exc, startResult, lastCall, given, nFail>>

\* traci.py:79-144: the command line is built and Popen is called.  `out' is
\* "build" when ensure_dir raises (traci.py:104-105: it is called only with
\* an emission path, and makes the directory only when it is missing) and
\* Popen is not reached, "spawn" when Popen raises,
\* "ok" when Popen returns and binds sumo_proc.
Popen(out) ==
    /\ pc = "try"
    /\ out = "build" => EnsureDirCanRaise
    /\ IF out = "build"
       THEN /\ UNCHANGED <<launch, nSpawn>>
            /\ commands' = <<>>
       ELSE /\ BuildSumoCall
            /\ nSpawn' = nSpawn + 1
            /\ commands' = <<Cmd("spawn", None, -1, {})>>
    /\ IF out = "ok"
       THEN /\ NextPid <= MaxProcs
            /\ sumo_proc' = NextPid
            /\ procs' = [procs EXCEPT ![NextPid] = "alive"]
            /\ spawned' = spawned \cup {NextPid}
            /\ GoOn("connect")
       ELSE /\ UNCHANGED <<sumo_proc, procs, spawned>>
            /\ Raise(out)
    /\ UNCHANGED <<kernelVars, sc_api, nKill, killed, nStarts, conns, subs, steps,
                   teleported, results, trace>>

\* traci.py:146-153: the settle delay, then traci.connect(port,
\* numRetries=100).  It returns a connection only if the engine it has just
\* spawned still runs.
Connect(ok) ==
    /\ pc = "connect"
    /\ IF ok
       THEN /\ LiveProc(sumo_proc)
            /\ NextCid <= MaxConns
            /\ conns' = [conns EXCEPT ![NextCid] = [st |-> "open", proc |-> sumo_proc]]
            /\ commands' = Append(commands, Cmd("connect", NextCid, -1, {}))
            /\ GoOn("setOrder")
       ELSE /\ UNCHANGED conns
            /\ commands' = Append(commands, Cmd("connect", None, -1, {}))
            /\ Raise("connect")
    /\ UNCHANGED <<kernelVars, sc_api, sumo_proc, nSpawn, nKill, spawned, killed,
                   nStarts, procs, subs, steps, teleported, results, launch, trace>>

\* traci.py:154: setOrder(0) on the new connection.
SetOrder(ok) ==
    /\ pc = "setOrder"
    /\ commands' = Append(commands, OrderCmd(FrameConn))
    /\ IF ok
       THEN /\ LiveProc(sumo_proc)
            /\ GoOn("simulationStep")
       ELSE Raise("setOrder")
    /\ UNCHANGED <<kernelVars, sc_api, sumo_proc, nSpawn, nKill, spawned, killed,
                   nStarts, envVars, launch, trace>>

\* traci.py:155: the first simulationStep, in which any of the vehicles may
\* begin to teleport.
FirstStep(ok) ==
    /\ pc = "simulationStep"
    /\ commands' = Append(commands, Cmd("simulationStep", FrameConn, -1, {}))
    /\ IF ok
       THEN /\ LiveProc(sumo_proc)
            /\ steps' = [steps EXCEPT ![sumo_proc] = @ + 1]
            /\ \E tp \in SUBSET Vehs :
                  teleported' = [teleported EXCEPT ![sumo_proc] = tp]
            /\ GoOn("return")
       ELSE /\ UNCHANGED <<steps, teleported>>
            /\ Raise("simulationStep")
    /\ UNCHANGED <<kernelVars, sc_api, sumo_proc, nSpawn, nKill, spawned, killed,
                   nStarts, procs, conns, subs, results, launch, trace>>

\* traci.py:157: return traci_connection.  The frame is gone and the caller
\* holds the connection.
Return ==
    /\ pc = "return"
    /\ pc' = "idle"
    /\ iter' = 0
    /\ error' = NoError
    /\ startResult' = [kind |-> "returned", conn |-> FrameConn, err |-> NoError]
    /\ lastCall' = [lastCall EXCEPT !.outcome = "ok", !.arg = FrameConn]
    /\ given' = given \cup {FrameConn}
    /\ UNCHANGED <<kernelVars, sc_api, sumo_proc, exc, nSpawn, nKill, nFail, spawned,
                   killed, nStarts, envVars, launch, trace, commands>>

\* Where a KeyboardInterrupt can find start_simulation at position p.  In
\* the try block: at its "start"; with the directory "ensured" (ensure_dir
\* has returned, traci.py:105) and the command line not complete; with the
\* command line "built" and Popen not called; inside Popen before the "fork"
\* (Popen has been called and no process exists); or as "Popen" returns,
\* before the assignment to self.sumo_proc.  In a "wait" for the engine, before the exchange it waits
\* for has taken effect (the exchanges before it have).  With the engine
\* "stepped", after simulationStep has returned and before the return
\* statement.  In the handler: before teardown_sumo is called ("handler"),
\* inside it before os.killpg ("teardown"), or after os.killpg ("killpg").
InterruptPoints(p) ==
    IF p = "try" THEN {"start", "ensured", "built", "fork", "Popen"}
    ELSE IF p \in Waits THEN {"wait"}
    ELSE IF p = "return" THEN {"stepped"}
    ELSE IF p = "except" THEN {"handler", "teardown", "killpg"}
    ELSE {}

AllInterruptPoints ==
    {"start", "ensured", "built", "fork", "Popen", "wait", "stepped", "handler",
     "teardown", "killpg"}

\* traci.py:78-162: a KeyboardInterrupt is not an Exception: neither
\* `except Exception' (traci.py:158, 168) catches it, whatever runs is cut
\* short at `at', and it leaves start_simulation at once.  What the attempt
\* has done so far stays done; the attempt is not counted as a failed one
\* (it has raised no Exception and no handler has run for it).
Interrupt(at) ==
    /\ at \in InterruptPoints(pc)
    /\ pc' = "idle"
    /\ iter' = 0
    /\ error' = NoError
    /\ exc' = NoError
    /\ startResult' = [kind |-> "interrupted", conn |-> None,
                       err |-> [attempt |-> iter, stage |-> "KeyboardInterrupt"]]
    /\ lastCall' = [lastCall EXCEPT !.outcome = "KeyboardInterrupt"]
    /\ IF at \in {"built", "fork", "Popen"} THEN BuildSumoCall
       ELSE IF at = "ensured" THEN EnsureDir
       ELSE UNCHANGED launch
    /\ IF at = "fork"
       THEN \* subprocess.Popen has been called and has created no process
            /\ nSpawn' = nSpawn + 1
            /\ commands' = <<Cmd("spawn", None, -1, {})>>
            /\ UNCHANGED <<procs, spawned, nKill, killed>>
       ELSE IF at = "Popen"
       THEN \* the engine runs and no name is bound to it
            /\ NextPid <= MaxProcs
            /\ nSpawn' = nSpawn + 1
            /\ procs' = [procs EXCEPT ![NextPid] = "alive"]
            /\ spawned' = spawned \cup {NextPid}
            /\ commands' = <<Cmd("spawn", None, -1, {})>>
            /\ UNCHANGED <<nKill, killed>>
       ELSE IF at \in {"teardown", "killpg"}
       THEN /\ nKill' = nKill + 1
            /\ procs' = IF at = "killpg" THEN KillPg(procs, sumo_proc) ELSE procs
            /\ killed' = IF at = "killpg" THEN KilledAfter(killed, sumo_proc) ELSE killed
            /\ UNCHANGED <<nSpawn, spawned, commands>>
       ELSE /\ commands' = IF pc = "try" THEN <<>> ELSE commands
            /\ UNCHANGED <<nSpawn, spawned, procs, nKill, killed>>
    /\ UNCHANGED <<kernelVars, sc_api, sumo_proc, nFail, callerVars, conns, subs,
                   steps, teleported, results, trace>>

\* traci.py:158-162: the except handler of one attempt, then the next
\* iteration, or `raise error' when the loop is over.
Except ==
    /\ pc = "except"
    /\ \E out \in TeardownOutcomes(procs, sumo_proc) :
       LET h == Handler(error, exc)
           t == IF h.teardown THEN out ELSE "ok"
       IN
       /\ IF h.teardown
          THEN /\ procs' = KillPg(procs, sumo_proc)
               /\ nKill' = nKill + 1
               /\ killed' = KilledAfter(killed, sumo_proc)
          ELSE UNCHANGED <<procs, nKill, killed>>
       /\ IF t # "ok"
          THEN \* teardown_sumo raises inside the handler: the frame is gone
               /\ pc' = "idle"
               /\ iter' = 0
               /\ error' = NoError
               /\ startResult' = [kind |-> "raised", conn |-> None,
                                  err |-> [attempt |-> iter, stage |-> "teardown"]]
               /\ lastCall' = [lastCall EXCEPT !.outcome = "raised"]
          ELSE IF LoopHasNext(iter)
          THEN /\ pc' = "try"
               /\ iter' = iter + 1
               /\ error' = h.error
               /\ UNCHANGED <<startResult, lastCall>>
          ELSE \* raise error: the frame is gone
               /\ pc' = "idle"
               /\ iter' = 0
               /\ error' = NoError
               /\ startResult' = [kind |-> "raised", conn |-> None, err |-> h.error]
               /\ lastCall' = [lastCall EXCEPT !.outcome = "raised"]
    /\ exc' = NoError
    /\ UNCHANGED <<kernelVars, sc_api, sumo_proc, conns, subs, steps, teleported,
                   results, launch, nSpawn, nFail, spawned, callerVars, trace,
                   commands>>

\* What a call of teardown_sumo from outside can end at: it returns, or a
\* KeyboardInterrupt cuts it short before os.killpg or after it.
TeardownEnds == {"return", "teardown", "killpg"}

\* teardown_sumo (traci.py:164-169) called from outside the retry loop.
teardown_sumo(at) ==
    /\ Ready
    /\ procs' = IF at = "teardown" THEN procs ELSE KillPg(procs, sumo_proc)
    /\ \E out \in TeardownOutcomes(procs, sumo_proc) :
          lastCall' = [op |-> "teardown_sumo", arg |-> None, reset |-> FALSE,
                       outcome |-> IF at = "return" THEN out ELSE "KeyboardInterrupt",
                       open |-> ScOpen]
    /\ trace' = <<>>
    /\ commands' = <<>>
    /\ ForgetStart
    /\ UNCHANGED <<kernelVars, sc_api, sumo_proc, callerVars, conns, subs, steps,
                   teleported, results, launch>>

\* ------------------------------------------------------------ environment
\* An engine process exits: on its own, or after the termination signal.
\* What the engine held (its step count, its teleports, the subscriptions of
\* its sessions and what they delivered) goes with it; the client's socket
\* objects stay as they are.
ProcExit(p) ==
    /\ LiveProc(p)
    /\ procs' = [procs EXCEPT ![p] = "exited"]
    /\ steps' = [steps EXCEPT ![p] = 0]
    /\ teleported' = [teleported EXCEPT ![p] = {}]
    /\ subs' = {c \in subs : conns[c].proc # p}
    /\ results' = [c \in Cids |-> IF conns[c].proc = p THEN {} ELSE results[c]]
    /\ UNCHANGED <<kernelVars, sc_api, sumo_proc, startVars, callerVars, conns,
                   launch, lastCall, trace, commands>>


\* ------------------------------------------------- TraCISimControl methods
\* traci.py:48-52: what the subscribe command ends with on connection api.
\* None has no attribute `simulation'; a closed socket or an exited engine
\* fails the exchange.
CommandOutcome(api) ==
    IF api = None THEN "AttributeError"
    ELSE IF Usable(api) THEN "ok" ELSE "FatalTraCIError"

\* traci.py:62-64: what self.kernel_api.close() ends with.  traci's close is a
\* no-op on a connection already closed, and sends the close command
\* otherwise.
CloseOutcome(api) ==
    IF api = None THEN "AttributeError"
    ELSE IF conns[api].st = "closed" THEN "ok"
    ELSE IF LiveProc(conns[api].proc) THEN "ok" ELSE "FatalTraCIError"

\* traci.py:62-64: the connections after TraCISimControl.close().
ConnsAfterClose(api) ==
    IF CloseOutcome(api) = "ok" THEN [conns EXCEPT ![api].st = "closed"] ELSE conns

\* traci.py:62-64: a closed session holds no subscription.
SubsAfterClose(api) ==
    IF CloseOutcome(api) = "ok" THEN subs \ {api} ELSE subs

\* traci.py:62-64: nor what the subscription delivered.
ResultsAfterClose(api) ==
    IF CloseOutcome(api) = "ok" THEN [results EXCEPT ![api] = {}] ELSE results

\* traci.py:62-64: an engine whose only session is closed has no client left
\* to report its steps and teleports to.
ForgottenAfterClose(f, api, nothing) ==
    IF CloseOutcome(api) = "ok" THEN [f EXCEPT ![conns[api].proc] = nothing] ELSE f

\* The command a method sends on connection api: none when the attribute
\* lookup on None raises before anything is sent.
Sent(cmd, api, fields) ==
    IF api = None THEN <<>> ELSE <<Cmd(cmd, api, -1, fields)>>

\* Whether the subscription of pass_api delivers the teleport-start ids.
TeleportsSubscribed == "VAR_TELEPORT_STARTING_VEHICLES_IDS" \in SubscribedVars

\* traci.py:56: the engine's steps after self.kernel_api.simulationStep().
StepsAfter(api) == [steps EXCEPT ![conns[api].proc] = @ + 1]

\* TraCISimControl.simulation_step (traci.py:54-56).  The engine makes one
\* step, in which any of the vehicles may begin to teleport, and answers with
\* the values of the session's subscription.
simulation_step ==
    /\ Ready
    /\ LET out == CommandOutcome(sc_api) IN
       /\ out = "ok" => steps[conns[sc_api].proc] < MaxSteps
       /\ IF out = "ok"
          THEN /\ steps' = StepsAfter(sc_api)
               /\ \E tp \in SUBSET Vehs :
                     /\ teleported' = [teleported EXCEPT ![conns[sc_api].proc] = tp]
                     /\ results' = IF sc_api \in subs /\ TeleportsSubscribed
                                   THEN [results EXCEPT ![sc_api] = tp]
                                   ELSE results
          ELSE UNCHANGED <<steps, teleported, results>>
       /\ lastCall' = [op |-> "simulation_step", arg |-> sc_api, reset |-> FALSE,
                       outcome |-> out, open |-> ScOpen]
    /\ trace' = <<>>
    /\ commands' = Sent("simulationStep", sc_api, {})
    /\ ForgetStart
    /\ UNCHANGED <<kernelVars, sc_api, sumo_proc, callerVars, procs, conns, subs,
                   launch>>

\* traci's simulation.getStartingTeleportNumber() on connection api, a query
\* of its own to the engine: the engine's count of the vehicles that began
\* to teleport in its last step.  It is read from the engine (teleported),
\* not from what the subscription delivered (results).
getStartingTeleportNumber(api) == Cardinality(teleported[conns[api].proc])

\* traci.py:68: the comparison check_collision returns.
Collision(n) == n # 0

\* TraCISimControl.check_collision (traci.py:66-68): the outcome is the value
\* returned ("True" / "False") or the exception raised.
check_collision ==
    /\ Ready
    /\ LET out == CommandOutcome(sc_api) IN
       lastCall' = [op |-> "check_collision", arg |-> sc_api, reset |-> FALSE,
                    outcome |-> IF out # "ok" THEN out
                                ELSE IF Collision(getStartingTeleportNumber(sc_api))
                                     THEN "True" ELSE "False",
                    open |-> ScOpen]
    /\ trace' = <<>>
    /\ commands' = Sent("getStartingTeleportNumber", sc_api, {})
    /\ ForgetStart
    /\ UNCHANGED <<kernelVars, sc_api, sumo_proc, callerVars, envVars, launch>>

\* traci.py:62-64: the command close() sends: none on a connection that is
\* already closed.
CloseCommands(api) ==
    IF api # None /\ conns[api].st = "closed" THEN <<>> ELSE Sent("close", api, {})

\* TraCISimControl.close (traci.py:62-64), called on the simulation control.
SimControl_close ==
    /\ Ready
    /\ conns' = ConnsAfterClose(sc_api)
    /\ lastCall' = [op |-> "SimControl.close", arg |-> sc_api, reset |-> FALSE,
                    outcome |-> CloseOutcome(sc_api), open |-> ScOpen]
    /\ trace' = <<>>
    /\ commands' = CloseCommands(sc_api)
    /\ subs' = SubsAfterClose(sc_api)
    /\ results' = ResultsAfterClose(sc_api)
    /\ steps' = ForgottenAfterClose(steps, sc_api, 0)
    /\ teleported' = ForgottenAfterClose(teleported, sc_api, {})
    /\ ForgetStart
    /\ UNCHANGED <<kernelVars, sc_api, sumo_proc, callerVars, procs, launch>>

\* ----------------------------------------------------------- Kernel methods
\* A facade that follows the order of update.
PassApiOrderAsUpdate == <<"vehicle", "traffic_light", "simulation", "sim_control">>

\* kernel.py:80-83: the order in which pass_api hands the connection on.
PassApiOrder == <<"sim_control", "simulation", "vehicle", "traffic_light">>

\* An update that refreshes the simulation control first.
UpdateOrderControlFirst == <<"sim_control", "vehicle", "traffic_light", "simulation">>

\* kernel.py:99-102: the order in which update refreshes the sub-kernels.
UpdateOrder == <<"vehicle", "traffic_light", "simulation", "sim_control">>

\* A close that tears the connection down first.
CloseOrderControlFirst == <<"sim_control", "simulation">>

\* kernel.py:106-107: the order in which close closes the sub-kernels.
CloseOrder == <<"simulation", "sim_control">>

\* A kernel that keeps the first connection it was given.
StoredApiKeepsFirst(old, api) == IF old # None THEN old ELSE api

\* kernel.py:79, base.py:38: the handle after `self.kernel_api = kernel_api'.
StoredApi(old, api) == api

\* TraCISimControl.pass_api (traci.py:39-52, base.py:38) called on the
\* simulation control itself: it stores the connection and subscribes; the
\* kernel's own handle is not touched.
SimControl_pass_api(api) ==
    /\ Ready
    /\ sc_api' = StoredApi(sc_api, api)
    /\ LET out == CommandOutcome(api) IN
          /\ subs' = IF out = "ok" THEN subs \cup {api} ELSE subs
          /\ results' = IF out = "ok" /\ TeleportsSubscribed
                        THEN [results EXCEPT ![api] = teleported[conns[api].proc]]
                        ELSE results
          /\ lastCall' = [op |-> "SimControl.pass_api", arg |-> api, reset |-> FALSE,
                          outcome |-> out, open |-> ScOpen]
    /\ commands' = Sent("subscribe", api, SubscribedVars)
    /\ trace' = <<>>
    /\ ForgetStart
    /\ UNCHANGED <<kernelVars, sumo_proc, callerVars, procs, conns, steps,
                   teleported, launch>>

\* Kernel.pass_api (kernel.py:77-83).  TraCISimControl.pass_api (traci.py:
\* 39-52, base.py:38) stores the connection and subscribes; when the
\* subscription raises, the sub-kernels after it are not reached.  The answer
\* to the subscription carries the current values.
Kernel_pass_api(api) ==
    /\ Ready
    /\ k_api' = StoredApi(k_api, api)
    /\ sc_api' = StoredApi(sc_api, api)
    /\ LET out == CommandOutcome(api)
           n == IF out = "ok" THEN Len(PassApiOrder) ELSE Pos(PassApiOrder, "sim_control")
       IN /\ subs' = IF out = "ok" THEN subs \cup {api} ELSE subs
          /\ results' = IF out = "ok" /\ TeleportsSubscribed
                        THEN [results EXCEPT ![api] = teleported[conns[api].proc]]
                        ELSE results
          /\ commands' = Sent("subscribe", api, SubscribedVars)
          /\ trace' = [i \in 1..n |->
                         Call(PassApiOrder[i], "pass_api", api, FALSE,
                              api # None /\ conns[api].st = "open")]
          /\ lastCall' = [op |-> "Kernel.pass_api", arg |-> api, reset |-> FALSE,
                          outcome |-> out, open |-> ScOpen]
    /\ ForgetStart
    /\ UNCHANGED <<kstate, kerr, sim_interface, subsystems, TraCINetworkBound,
                   sumo_proc, callerVars, procs, conns, steps, teleported, launch>>

\* Kernel.update (kernel.py:85-102).  TraCISimControl.update (traci.py:58-60)
\* does nothing.
Kernel_update(reset) ==
    /\ Ready
    /\ trace' = [i \in 1..Len(UpdateOrder) |->
                   Call(UpdateOrder[i], "update", None, reset, ScOpen)]
    /\ lastCall' = [op |-> "Kernel.update", arg |-> None, reset |-> reset,
                    outcome |-> "ok", open |-> ScOpen]
    /\ commands' = <<>>
    /\ ForgetStart
    /\ UNCHANGED <<kernelVars, sc_api, sumo_proc, callerVars, envVars, launch>>

\* Kernel.close (kernel.py:104-107).  When TraCISimControl.close raises, the
\* sub-kernels after it are not reached.
Kernel_close ==
    /\ Ready
    /\ LET out == CloseOutcome(sc_api)
           at == Pos(CloseOrder, "sim_control")
           n == IF out = "ok" THEN Len(CloseOrder) ELSE at
       IN /\ trace' = [i \in 1..n |->
                         Call(CloseOrder[i], "close", None, FALSE,
                              ScOpen /\ ~(i > at /\ out = "ok"))]
          /\ lastCall' = [op |-> "Kernel.close", arg |-> sc_api, reset |-> FALSE,
                          outcome |-> out, open |-> ScOpen]
    /\ conns' = ConnsAfterClose(sc_api)
    /\ subs' = SubsAfterClose(sc_api)
    /\ results' = ResultsAfterClose(sc_api)
    /\ commands' = CloseCommands(sc_api)
    /\ steps' = ForgottenAfterClose(steps, sc_api, 0)
    /\ teleported' = ForgottenAfterClose(teleported, sc_api, {})
    /\ ForgetStart
    /\ UNCHANGED <<kernelVars, sc_api, sumo_proc, callerVars, procs, launch>>

\* ------------------------------------------------------------ specification
Next ==
    \/ \E sel \in Selectors : Kernel__init__(sel)
    \/ start_simulation
    \/ \E out \in {"build", "spawn", "ok"} : Popen(out)
    \/ \E ok \in BOOLEAN : Connect(ok)
    \/ \E ok \in BOOLEAN : SetOrder(ok)
    \/ \E ok \in BOOLEAN : FirstStep(ok)
    \/ Return
    \/ \E at \in AllInterruptPoints : Interrupt(at)
    \/ Except
    \/ \E at \in TeardownEnds : teardown_sumo(at)
    \/ simulation_step
    \/ check_collision
    \/ SimControl_close
    \/ \E api \in given \cup {None} : SimControl_pass_api(api)
    \/ \E api \in given \cup {None} : Kernel_pass_api(api)
    \/ \E reset \in BOOLEAN : Kernel_update(reset)
    \/ Kernel_close
    \/ \E p \in Pids : ProcExit(p)

Spec == Init /\ [][Next]_vars

\* The launch alone: any configuration, and attempts that build the command
\* line from it (traci.py:80-133).
InitLaunch == InitKernel /\ \E p \in Params : launch = NewLaunch(p)

BuildOnly ==
    /\ BuildSumoCall
    /\ UNCHANGED <<kernelVars, sc_api, sumo_proc, startVars, callerVars, envVars,
                   lastCall, trace, commands>>

\* traci.py:104-105: ensure_dir raises, and the attempt has no command line.
BuildRaises ==
    /\ EnsureDirCanRaise
    /\ UNCHANGED vars

NextLaunch == BuildOnly \/ BuildRaises

SpecLaunch == InitLaunch /\ [][NextLaunch]_vars


\* ------------------------------------------------------------------ claims
\* The sub-kernels a method called, in order.
Objs == [i \in 1..Len(trace) |-> trace[i].obj]

\* The calls of trace on the sub-kernels of S, in order.
RECURSIVE Only(_, _)
Only(seq, S) ==
    IF seq = <<>> THEN <<>>
    ELSE IF Head(seq) \in S THEN <<Head(seq)>> \o Only(Tail(seq), S)
    ELSE Only(Tail(seq), S)

\* C1: one call of start_simulation makes exactly k attempts and returns the
\* connection when attempt k <= 10 is the first to succeed, and makes exactly
\* 10 attempts and raises when every attempt raises an Exception: it never
\* raises after fewer than 10 failed attempts and never makes an 11th.
C1_AttemptsExact ==
    /\ iter <= RETRIES_ON_ERROR
    /\ nFail <= RETRIES_ON_ERROR
    /\ pc \in {"try", "return"} \cup Waits => iter >= 1 /\ nFail = iter - 1
    /\ pc = "except" => nFail = iter
    /\ startResult.kind = "returned" =>
          /\ nFail < RETRIES_ON_ERROR
          /\ startResult.conn \in Cids
          /\ conns[startResult.conn].st = "open"
    /\ startResult.kind = "raised" =>
          /\ nFail = RETRIES_ON_ERROR
          /\ startResult.err.attempt = RETRIES_ON_ERROR

\* The 10th attempt is the first to succeed.
C1_Witness == startResult.kind = "returned" /\ nSpawn = 10 /\ nFail = 9

\* C2: inside one call of start_simulation every failed attempt is followed
\* by teardown_sumo before the next attempt spawns: when an attempt is about
\* to begin or is under way, and when the call has returned or raised, the
\* teardown_sumo calls equal the failed attempts (a successful attempt adds
\* none), and the handle of a failed attempt is not left running unsignalled.
C2_KillPerFailure ==
    /\ pc \in {"try", "return"} \cup Waits => nKill = nFail
    /\ startResult.kind \in {"returned", "raised"} => nKill = nFail
    /\ pc = "except" => nKill = nFail - 1
    /\ (pc = "try" /\ nFail > 0 /\ sumo_proc # None) => procs[sumo_proc] # "alive"

\* The third attempt is about to begin: two failed, two teardowns, and the
\* process of the second has the signal.
C2_Witness ==
    /\ pc = "try"
    /\ iter = 3
    /\ nFail = 2
    /\ nKill = 2
    /\ sumo_proc # None
    /\ procs[sumo_proc] = "signalled"

\* C3: when all 10 attempts have failed, what start_simulation raises is the
\* error of the 10th attempt itself (the exception the last handler caught),
\* not that of an earlier attempt and not one of the teardown: a handler that
\* runs to its end leaves the call only after attempt 10, by raising what it
\* caught.
C3_LastErrorRaised ==
    [][(Except /\ pc' = "idle") =>
          /\ iter = RETRIES_ON_ERROR
          /\ startResult'.kind = "raised"
          /\ startResult'.err = exc
          /\ exc.attempt = RETRIES_ON_ERROR
          /\ exc.stage \in Stages]_vars

\* All ten attempts failed, the first nine at spawn, the last at connect.
C3_Witness ==
    /\ startResult.kind = "raised"
    /\ startResult.err = [attempt |-> 10, stage |-> "connect"]
    /\ nFail = 10

\* C4: at any time there is at most one live engine process and at most one
\* open connection.
C4_AtMostOneLive ==
    /\ Cardinality(LiveProcs) <= 1
    /\ Cardinality(OpenConns) <= 1

\* C5: TraCISimControl.close, on the connection a successful
\* start_simulation returned, closes the connection and has the engine
\* process signalled.
C5_CloseKillsProcess ==
    (lastCall.op = "SimControl.close" /\ lastCall.outcome = "ok"
        /\ lastCall.arg \in given) =>
       /\ conns[lastCall.arg].st = "closed"
       /\ procs[conns[lastCall.arg].proc] \in {"signalled", "exited"}

\* C6: TraCISimControl.close and Kernel.close return normally whatever the
\* state of the connection and of the process, and Kernel.close runs both of
\* its steps.
C6_ShutdownNeverRaises ==
    /\ lastCall.op \in {"SimControl.close", "Kernel.close"} => lastCall.outcome = "ok"
    /\ lastCall.op = "Kernel.close" => Len(trace) = 2

\* C7: for every selector other than "traci" the constructor raises
\* FatalFlowError, and then no sub-kernel is instantiated, no process was
\* spawned and no connection exists.
C7_UnknownBackendRaises ==
    (kstate # "new" /\ sim_interface # "traci") =>
       /\ kstate = "raised"
       /\ kerr = "FatalFlowError"
       /\ subsystems = {}
       /\ k_api = None
       /\ nSpawn = 0
       /\ \A p \in Pids : procs[p] = "none"
       /\ \A c \in Cids : conns[c].st = "none"

\* The constructor was given "nonexistent" and raised.
C7_Witness == kstate = "raised" /\ sim_interface = "nonexistent" /\ kerr = "FatalFlowError"

\* C8, as stated: pass_api hands the connection to vehicle, then
\* traffic_light, then simulation.
C8_OrderAsStated ==
    (lastCall.op = "Kernel.pass_api" /\ lastCall.outcome = "ok") =>
       Only(Objs, {"vehicle", "traffic_light", "simulation"})
          = <<"vehicle", "traffic_light", "simulation">>

\* C8, amended: pass_api stores the connection on the kernel and hands the
\* same connection to sim_control, simulation, vehicle, traffic_light, in
\* that order, and stops after sim_control when its subscription raises.
C8_PassApiOrder ==
    lastCall.op = "Kernel.pass_api" =>
       /\ k_api = lastCall.arg
       /\ sc_api = lastCall.arg
       /\ \A i \in 1..Len(trace) : trace[i].op = "pass_api" /\ trace[i].arg = lastCall.arg
       /\ lastCall.outcome = "ok" =>
             Objs = <<"sim_control", "simulation", "vehicle", "traffic_light">>
       /\ lastCall.outcome # "ok" => Objs = <<"sim_control">>

\* pass_api was given the connection start_simulation returned and ended
\* normally.
C8_Witness ==
    /\ lastCall.op = "Kernel.pass_api" /\ lastCall.outcome = "ok"
    /\ lastCall.arg \in given /\ Len(trace) = 4

\* C9: every call of Kernel.update, reset or not, calls update once on each
\* of vehicle, traffic_light, simulation, sim_control, in that order, with
\* the reset it was given.
C9_UpdateOrder ==
    lastCall.op = "Kernel.update" =>
       /\ Objs = <<"vehicle", "traffic_light", "simulation", "sim_control">>
       /\ \A i \in 1..Len(trace) :
             trace[i].op = "update" /\ trace[i].reset = lastCall.reset

\* update(True) on a kernel that holds a connection.
C9_Witness ==
    /\ lastCall.op = "Kernel.update" /\ lastCall.reset
    /\ k_api # None /\ Len(trace) = 4

\* C10: Kernel.close on a connected kernel calls simulation's close once and
\* then sim_control's close once; the connection is still open while
\* simulation's close runs.
C10_CloseOrder ==
    (lastCall.op = "Kernel.close" /\ k_api # None /\ lastCall.open) =>
       /\ Objs = <<"simulation", "sim_control">>
       /\ \A i \in 1..Len(trace) : trace[i].op = "close"
       /\ trace[1].open

\* Kernel.close on a connected kernel has closed the connection.
C10_Witness ==
    /\ lastCall.op = "Kernel.close" /\ lastCall.open /\ lastCall.outcome = "ok"
    /\ k_api # None /\ conns[k_api].st = "closed"

\* C11: simulation_step or check_collision on a simulation control for which
\* no start_simulation has returned a connection ends with the dedicated
\* NotStartedError, and with no other error, and sends no protocol command.
C11_NotStartedError ==
    lastCall.op \in {"simulation_step", "check_collision"} /\ given = {} =>
        lastCall.outcome = "NotStartedError" /\ commands = <<>>

HandleState(api) ==
    IF api = None THEN "Uninitialized"
    ELSE IF conns[api].st = "closed" THEN "Closed" ELSE "Connected"

KernelState == HandleState(k_api)

\* C13 as stated: the lifecycle state only moves forward; a Closed kernel
\* never becomes Connected again and a Connected kernel never returns to
\* Uninitialized.
C13_OnlyForward ==
    [][/\ KernelState = "Closed" => KernelState' # "Connected"
       /\ KernelState = "Connected" => KernelState' # "Uninitialized"]_vars

\* C13: the lifecycle state changes only by Kernel.pass_api and by close;
\* pass_api puts the kernel in the state of the handle it is given, from any
\* state, and a close that succeeds takes a Connected kernel to Closed when
\* the simulation control holds the kernel's connection.
C13_Lifecycle ==
    [][IF lastCall'.op = "Kernel.pass_api" /\ Kernel_pass_api(lastCall'.arg)
       THEN KernelState' = HandleState(lastCall'.arg)
       ELSE IF \/ lastCall'.op = "Kernel.close" /\ Kernel_close
               \/ lastCall'.op = "SimControl.close" /\ SimControl_close
       THEN KernelState' = IF /\ KernelState = "Connected"
                              /\ CloseOutcome(sc_api) = "ok"
                              /\ sc_api = k_api
                           THEN "Closed" ELSE KernelState
       ELSE KernelState' = KernelState]_vars

C13_Witness ==
    /\ lastCall.op = "Kernel.pass_api"
    /\ KernelState = "Connected"
    /\ \E c \in Cids : c # k_api /\ conns[c].st = "closed"

\* C14: teardown_sumo never raises, whether there is no process handle, the
\* process has already exited (os.killpg may fail) or it runs: called from
\* outside it returns normally, and in the retry loop every handler is
\* followed by the next attempt, so that what start_simulation raises after
\* the 10th is the error of an attempt and never one of the teardown.
C14_KillNeverRaises ==
    /\ (lastCall.op = "teardown_sumo" /\ lastCall.outcome # "KeyboardInterrupt") =>
          lastCall.outcome = "ok"
    /\ pc = "try" => nKill = iter - 1
    /\ startResult.kind = "raised" =>
          /\ startResult.err.stage \in Stages
          /\ nKill = RETRIES_ON_ERROR

\* The first attempt failed before a process was spawned, teardown_sumo ran
\* with no handle, and the second attempt is about to begin.
C14_Witness ==
    /\ pc = "try"
    /\ iter = 2
    /\ nKill = 1
    /\ sumo_proc = None

\* C15: once start_simulation has returned a connection that is still
\* usable, every simulation_step succeeds and sends one step command, with no
\* other call needed in between.
C15_OwnedAfterStart ==
    lastCall.op = "simulation_step" /\ (\E c \in given : Usable(c)) =>
        lastCall.outcome = "ok" /\ Len(commands) = 1

\* C16: pass_api, through the kernel or on the simulation control itself,
\* stores the connection on the simulation control and sends
\* exactly one subscription, of exactly the five simulation variables
\* departed ids, arrived ids, teleport-start ids, time step and step delta;
\* every simulation_step that succeeds finds that subscription in place.
C16_Subscription ==
    [][/\ \/ lastCall'.op = "Kernel.pass_api" /\ Kernel_pass_api(lastCall'.arg)
          \/ lastCall'.op = "SimControl.pass_api" /\ SimControl_pass_api(lastCall'.arg)
          =>
             LET api == lastCall'.arg IN
             /\ sc_api' = api
             /\ commands' =
                   IF api = None THEN <<>>
                   ELSE <<Cmd("subscribe", api, -1,
                              {"VAR_DEPARTED_VEHICLES_IDS",
                               "VAR_ARRIVED_VEHICLES_IDS",
                               "VAR_TELEPORT_STARTING_VEHICLES_IDS",
                               "VAR_TIME_STEP", "VAR_DELTA_T"})>>
             /\ Usable(api) => api \in subs'
       /\ lastCall'.op = "simulation_step" /\ lastCall'.outcome = "ok"
             /\ simulation_step => sc_api \in subs]_vars

C16_Witness ==
    /\ lastCall.op = "Kernel.pass_api"
    /\ lastCall.outcome = "ok"
    /\ sc_api \in subs
    /\ Len(commands) = 1
    /\ steps[conns[sc_api].proc] = 1

\* C17: Kernel.__init__ with the selector "traci" returns without an error
\* and leaves the four sub-kernels instantiated and the connection handle
\* unset.
C17_TraciConstructs ==
    lastCall.op = "Kernel.__init__" /\ sim_interface = "traci" =>
        /\ kstate = "ok"
        /\ subsystems = AllSubsystems
        /\ k_api = None

\* C18: when a call of start_simulation returns or raises, and before each
\* of its retries, os.killpg has been called on the group of every process a
\* failed attempt of that call spawned, and none of them is left running
\* unsignalled; the one spawned process it never signalled is that of the
\* attempt that succeeded.
C18_FailedAttemptsSignalled ==
    /\ pc = "try" => spawned \subseteq killed
    /\ startResult.kind = "raised" => spawned \subseteq killed
    /\ startResult.kind = "returned" =>
          spawned \ killed = {conns[startResult.conn].proc}
    /\ \A p \in killed : procs[p] \in {"signalled", "exited"}

\* The first attempt spawned a process and failed, the second succeeded: the
\* first process was signalled, the second was not.
C18_Witness ==
    /\ startResult.kind = "returned"
    /\ Cardinality(spawned) = 2
    /\ Cardinality(killed) = 1
    /\ killed \subseteq spawned

\* C19: an attempt that succeeds has spawned, connected, set the client order
\* to 0 and stepped the engine once, in that order, so that the engine has
\* made exactly one step when start_simulation returns; an attempt whose
\* setOrder or first step raises is a failed attempt: teardown_sumo, then the
\* next attempt.
C19_Handshake ==
    /\ pc = "return" \/ startResult.kind = "returned" =>
          LET c == IF pc = "return" THEN FrameConn ELSE startResult.conn IN
          /\ commands = <<Cmd("spawn", None, -1, {}), Cmd("connect", c, -1, {}),
                          Cmd("setOrder", c, 0, {}), Cmd("simulationStep", c, -1, {})>>
          /\ Usable(c) => steps[conns[c].proc] = 1
    /\ pc = "except" /\ exc.stage \in {"setOrder", "simulationStep"} =>
          /\ nFail = iter
          /\ commands[Len(commands)].cmd = exc.stage
          /\ exc.stage = "simulationStep" =>
                commands[Len(commands) - 1] = Cmd("setOrder", FrameConn, 0, {})
    /\ pc = "try" /\ error.stage \in {"setOrder", "simulationStep"} =>
          /\ nKill = nFail
          /\ sumo_proc \in killed
          /\ iter = error.attempt + 1

\* The first attempt failed at its first step, the second succeeded.
C19_Witness ==
    /\ startResult.kind = "returned"
    /\ nFail = 1
    /\ killed # {}
    /\ Len(commands) = 4
    /\ steps[conns[startResult.conn].proc] = 1

\* The places of literal f in command line c, and the element after it.
Places(c, f) == {i \in 1..Len(c) : c[i] = Lit(f)}
Once(c, f) == Cardinality(Places(c, f)) = 1
ValueOf(c, f) == c[(CHOOSE i \in Places(c, f) : TRUE) + 1]

\* C20: for every configuration the command line of an attempt has
\* --remote-port, --num-clients, --step-length, --time-to-teleport with the
\* integer part of the configured time, and --collision.check-junctions true;
\* it has --no-step-log, --lateral-resolution, --emission-output,
\* --lanechange.overtake-right true, --seed and --no-warnings true exactly
\* when the configuration asks for them (--no-warnings when warnings are not
\* asked for); and every retry builds the same command line again.
C20_CommandLine ==
    /\ [](launch.sumo_call # <<>> =>
            LET c == launch.sumo_call
                p == launch.params
                v == ValueOf(c, "--time-to-teleport").n
            IN
            /\ Once(c, "--remote-port") /\ ValueOf(c, "--remote-port") = StrInt(p.port)
            /\ Once(c, "--num-clients")
            /\ ValueOf(c, "--num-clients") = StrInt(p.num_clients)
            /\ Once(c, "--step-length")
            /\ ValueOf(c, "--step-length") = StrFloat(p.sim_step)
            /\ Once(c, "--time-to-teleport")
            /\ ValueOf(c, "--time-to-teleport").kind = "int"
            /\ p.teleport_time >= 0 => 10 * v <= p.teleport_time /\ p.teleport_time < 10 * v + 10
            /\ p.teleport_time < 0 => 10 * v >= p.teleport_time /\ p.teleport_time > 10 * v - 10
            /\ Once(c, "--collision.check-junctions")
            /\ ValueOf(c, "--collision.check-junctions") = Lit("true")
            /\ Places(c, "--no-step-log") # {} <=> p.no_step_log
            /\ Places(c, "--lateral-resolution") # {} <=> p.lateral_resolution.some
            /\ Places(c, "--emission-output") # {} <=> p.emission_path.some
            /\ Places(c, "--lanechange.overtake-right") # {} <=> p.overtake_right
            /\ p.overtake_right => ValueOf(c, "--lanechange.overtake-right") = Lit("true")
            /\ Places(c, "--seed") # {} <=> p.seed.some
            /\ p.seed.some => ValueOf(c, "--seed") = StrInt(p.seed.v)
            /\ Places(c, "--no-warnings") # {} <=> ~p.print_warnings
            /\ ~p.print_warnings => ValueOf(c, "--no-warnings") = Lit("true"))
    /\ [][launch.sumo_call # <<>> => launch'.sumo_call = launch.sumo_call]_vars

C20_Witness ==
    /\ launch.sumo_call # <<>>
    /\ launch.params.seed = Some(0)
    /\ ~launch.params.print_warnings
    /\ launch.params.teleport_time = 1205
    /\ ValueOf(launch.sumo_call, "--seed") = StrInt(0)
    /\ ValueOf(launch.sumo_call, "--time-to-teleport") = StrInt(120)

=============================================================================
